---- MODULE Spec2Model ----
(***************************************************************************)
(* The authenticated request executors of coincheck-rust's DefaultClient   *)
(* (src/src/client.rs): get_request_with_auth, post_request_with_auth and  *)
(* delete_request_with_auth, with should_retry and make_signature.         *)
(*                                                                         *)
(* Every call is an async task.  A task runs on the executor thread from   *)
(* one await point to the next: the polls are the actions below.  The      *)
(* retry wait is std::thread::sleep, which holds the thread (blocked).     *)
(* The system clock (now) and the server's answers are the environment.    *)
(***************************************************************************)
EXTENDS Integers, Sequences, FiniteSets, TLC

VARIABLES
    access_key,   \* DefaultClient.access_key
    secret_key,   \* DefaultClient.secret_key
    key_usable,   \* whether PKey::hmac and Signer::new accept secret_key (OpenSSL's answer)
    now,          \* SystemTime::now() - UNIX_EPOCH, in ms (negative: before the epoch)
    blocked,      \* the task holding the thread in std::thread::sleep, 0 when none
    pc,           \* per task: "idle", "send", "text", "sleep", "done", "panicked"
    args,         \* per task: the arguments of the running call
    retry_count,  \* per task: the local retry_count
    nonce,        \* per task: the local nonce of the current attempt
    json,         \* per task: the local json of the current attempt (POST)
    request,      \* per task: the request handed to the transport in the current attempt
    res_text,     \* per task: the last response text read
    outcome,      \* per task: the MyResult the call returned
    net,          \* per task: what the transport did in the current attempt
    requests,     \* per task: requests sent by the running call
    sleeps,       \* per task: std::thread::sleep calls made by the running call
    slept_at,     \* per task: the clock reading when the last std::thread::sleep began
    signs,        \* per task: make_signature calls made by the running call
    recoverable,  \* per task: responses of the running call for which should_retry held
    server,       \* the server: the last nonce it accepted and the answer it has ready
    drive,        \* the event fed to every executor when they are run side by side
    sig           \* a signing on its own: the texts given to make_signature and its result

vars == <<access_key, secret_key, key_usable, now, blocked, pc, args, retry_count, nonce,
          json, request, res_text, outcome, net, requests, sleeps, slept_at, signs,
          recoverable, server, drive, sig>>

\* The environment's own state, which no step of a call writes.
env == <<server, drive, sig>>

----------------------------------------------------------------------------
(* Program constants. *)

BASE_URL == "https://coincheck.com"
MAX_RETRY_COUNT == 5
RETRY_INTERVAL_MS == 10

(* Bounds of the model. *)

MaxClock == 30          \* the clock is read within -TickMs .. MaxClock
TickMs == 10            \* granularity of the modelled clock

ClockVals == {t \in (0 - TickMs)..MaxClock : t % TickMs = 0}

----------------------------------------------------------------------------
(* Values. *)

Absent == "<absent>"
NoBody == "<none>"

AccessKeys == {"access-A", "access-B"}
SecretKeys == {"secret-A", "secret-B"}

Verbs == {"GET", "POST", "DELETE"}

\* URLs the public operations build with format!("{}{}", BASE_URL, path).
UrlBalance == BASE_URL \o "/api/accounts/balance"
UrlOrders == BASE_URL \o "/api/exchange/orders"
Urls == {UrlBalance, UrlOrders}

\* Request values handed to post_request_with_auth (T: Serialize).
BodyBuy == [pair |-> "btc_jpy", order_type |-> "buy", serializable |-> TRUE]
BodySell == [pair |-> "btc_jpy", order_type |-> "sell", serializable |-> TRUE]
BodyBad == [pair |-> "btc_jpy", order_type |-> "buy", serializable |-> FALSE]
Bodies == {BodyBuy, BodySell, BodyBad}
NoArgBody == [pair |-> Absent, order_type |-> Absent, serializable |-> TRUE]

\* serde_json::to_string(&body): the JSON text, or Absent when T's Serialize fails.
to_string(b) ==
    IF b.serializable
    THEN "{\"pair\":\"" \o b.pair \o "\",\"order_type\":\"" \o b.order_type \o "\"}"
    ELSE Absent

\* Response texts: raw is the text, the other fields what a JSON parser finds in it.
NonceMessage == "Nonce must be incremented"
TextOk == [raw |-> "{\"success\":true,\"id\":7}",
           success |-> "true", error |-> Absent, id |-> 7]
TextBoth == [raw |-> "{\"success\":false,\"id\":7,\"error\":\"Nonce must be incremented\"}",
             success |-> "false", error |-> NonceMessage, id |-> 7]
TextNonce == [raw |-> "{\"success\":false,\"error\":\"Nonce must be incremented\"}",
              success |-> "false", error |-> NonceMessage, id |-> 0]
TextOther == [raw |-> "{\"success\":false,\"error\":\"Something else\"}",
              success |-> "false", error |-> "Something else", id |-> 0]
TextCase == [raw |-> "{\"success\":false,\"error\":\"nonce must be incremented\"}",
             success |-> "false", error |-> "nonce must be incremented", id |-> 0]
TextSpace == [raw |-> "{\"success\":false,\"error\":\"Nonce must be incremented \"}",
              success |-> "false", error |-> "Nonce must be incremented ", id |-> 0]
TextHtml == [raw |-> "<html>502 Bad Gateway</html>",
             success |-> Absent, error |-> Absent, id |-> 0]
TextEmpty == [raw |-> "", success |-> Absent, error |-> Absent, id |-> 0]
NoText == [raw |-> "<none>", success |-> Absent, error |-> Absent, id |-> 0]

Texts == {TextOk, TextBoth, TextNonce, TextOther, TextCase, TextSpace, TextHtml, TextEmpty}

\* The success schemas callers ask for: "strict" requires its own field (id),
\* "lenient" has success and an optional error of its own (OrdersPostResponse).
Schemas == {"strict", "lenient"}

NoValue == [success |-> Absent, error |-> Absent, id |-> 0]

\* serde_json::from_str::<T>(&res_text).is_ok()
DecodesAs(schema, t) ==
    IF schema = "strict"
    THEN t.success # Absent /\ t.id # 0
    ELSE t.success # Absent

\* serde_json::from_str::<T>(&res_text): the fields T keeps.
DecodeAs(schema, t) ==
    IF schema = "strict"
    THEN [success |-> t.success, error |-> Absent, id |-> t.id]
    ELSE [success |-> t.success, error |-> t.error, id |-> 0]

\* serde_json::from_str::<ErrorResponse>(&res_text).is_ok()
DecodesAsError(t) == t.success # Absent /\ t.error # Absent

\* The error field of the decoded ErrorResponse.
ErrorMessage(t) == t.error

\* A response the spec calls recoverable: it decodes as the server error, and not as
\* the caller's schema, with the message exactly "Nonce must be incremented".
IsRecoverable(schema, t) ==
    ~DecodesAs(schema, t) /\ DecodesAsError(t) /\ ErrorMessage(t) = NonceMessage

----------------------------------------------------------------------------
(* Pure functions of the source. *)

Digit(d) ==
    CASE d = 0 -> "0" [] d = 1 -> "1" [] d = 2 -> "2" [] d = 3 -> "3" [] d = 4 -> "4"
      [] d = 5 -> "5" [] d = 6 -> "6" [] d = 7 -> "7" [] d = 8 -> "8" [] d = 9 -> "9"

RECURSIVE Decimal(_)
\* format!("{}", nonce) for a u128
Decimal(n) == IF n < 10 THEN Digit(n) ELSE Decimal(n \div 10) \o Digit(n % 10)

\* make_signature: HMAC-SHA256 keyed by secret_key over decimal(nonce) ++ url ++ body,
\* as hex.  The digest is kept symbolic: the key and the signed byte string.
make_signature(n, url, body, secret) ==
    [alg |-> "hmac-sha256-hex", key |-> secret, msg |-> Decimal(n) \o url \o body]

NoSignature == [alg |-> Absent, key |-> Absent, msg |-> Absent]

\* Mutant: a clock before the epoch read as 0 (unwrap_or_default) instead of failing.
duration_since_Clamped(t) ==
    [ok |-> TRUE, millis |-> IF t < 0 THEN 0 ELSE t]

\* SystemTime::now().duration_since(UNIX_EPOCH) and as_millis(): an error when the
\* clock reads a time before the epoch.
duration_since(t) ==
    IF t < 0 THEN [ok |-> FALSE, millis |-> 0] ELSE [ok |-> TRUE, millis |-> t]

\* Mutant: a text is taken as the caller's value only when its success flag is true.
Classify_SuccessMeansTrue(schema, t) ==
    IF DecodesAs(schema, t) /\ t.success = "true" THEN "success"
    ELSE IF DecodesAsError(t) THEN "error"
    ELSE "unparseable"

\* Mutant: ErrorResponse tried before the caller's schema.
Classify_ErrorFirst(schema, t) ==
    IF DecodesAsError(t) THEN "error"
    ELSE IF DecodesAs(schema, t) THEN "success"
    ELSE "unparseable"

\* Mutant: no ParseError exit; what is not a success is handled as a server error.
Classify_NoParseError(schema, t) ==
    IF DecodesAs(schema, t) THEN "success" ELSE "error"

\* The order of the two from_str attempts on res_text: the caller's schema, then
\* ErrorResponse, then neither.
Classify(schema, t) ==
    IF DecodesAs(schema, t) THEN "success"
    ELSE IF DecodesAsError(t) THEN "error"
    ELSE "unparseable"

\* Mutant: the message compared without regard to case.
should_retry_IgnoreCase(message) ==
    message \in {NonceMessage, "nonce must be incremented"}

\* Mutant: nothing is retried.
should_retry_Never(message) == FALSE

\* DefaultClient::should_retry
should_retry(message) == message = NonceMessage

\* Mutant: the loop has no budget; a recoverable error is retried every time.
BudgetRemains_Always(rc) == TRUE

\* Mutant: the budget test off by one.
BudgetRemains_OffByOne(rc) == rc < MAX_RETRY_COUNT

\* retry_count <= MAX_RETRY_COUNT, evaluated after retry_count += 1
BudgetRemains(rc) == rc <= MAX_RETRY_COUNT

\* Mutant: the DELETE loop tests its budget with < where the other two have <=.
BudgetRemainsIn_DeleteDiffers(verb, rc) ==
    CASE verb = "GET" -> BudgetRemains(rc)
      [] verb = "POST" -> BudgetRemains(rc)
      [] verb = "DELETE" -> rc < MAX_RETRY_COUNT

\* The budget test of each of the three loops.
BudgetRemainsIn(verb, rc) ==
    CASE verb = "GET" -> BudgetRemains(rc)
      [] verb = "POST" -> BudgetRemains(rc)
      [] verb = "DELETE" -> BudgetRemains(rc)

\* Mutant: POST signs the empty body, as GET and DELETE do.
SignedBody_Empty(verb, js) == ""

\* The body text handed to make_signature: "" for GET and DELETE, json for POST.
SignedBody(verb, js) == IF verb = "POST" THEN js ELSE ""

\* The body attached to the request: .body(json.clone()) for POST only.
SentBody(verb, js) == IF verb = "POST" THEN js ELSE NoBody

\* The Content-Type header: set for POST only.
ContentType(verb) == IF verb = "POST" THEN "application/json" ELSE Absent

\* Mutant: POST reports the empty request text, as GET and DELETE do.
ErrorRequest_Empty(verb, js) == ""

\* The request field of ResponseError: "" for GET and DELETE, json for POST.
ErrorRequest(verb, js) == IF verb = "POST" THEN js ELSE ""

\* The request the builder chain hands to send().
BuildRequest(verb, url, n, js, ak, sk) ==
    [verb |-> verb,
     url |-> url,
     ACCESS_KEY |-> ak,
     ACCESS_NONCE |-> Decimal(n),
     ACCESS_SIGNATURE |-> make_signature(n, url, SignedBody(verb, js), sk),
     Content_Type |-> ContentType(verb),
     body |-> SentBody(verb, js)]

NoRequest ==
    [verb |-> Absent, url |-> Absent, ACCESS_KEY |-> Absent, ACCESS_NONCE |-> Absent,
     ACCESS_SIGNATURE |-> NoSignature, Content_Type |-> Absent, body |-> NoBody]

\* MyResult values.
NoOutcome ==
    [kind |-> "None", value |-> NoValue, message |-> Absent, url |-> Absent,
     request |-> Absent, text |-> NoText]
OkOutcome(v) == [NoOutcome EXCEPT !.kind = "Ok", !.value = v]
ResponseErrorOutcome(m, u, r) ==
    [NoOutcome EXCEPT !.kind = "ResponseError", !.message = m, !.url = u, !.request = r]
ParseErrorOutcome(t) == [NoOutcome EXCEPT !.kind = "ParseError", !.text = t]
TransportErrorOutcome(stage) ==
    [NoOutcome EXCEPT !.kind = "TransportError", !.message = stage]
SystemTimeErrorOutcome == [NoOutcome EXCEPT !.kind = "SystemTimeError"]
SerializeErrorOutcome == [NoOutcome EXCEPT !.kind = "SerializeError"]

\* The server before any request of this client, and no event being fed.
NoServer == [last_accepted |-> 0 - 1, reply |-> NoText]
NoDrive == [from |-> "none", kind |-> "none", text |-> NoText, url |-> Absent,
            schema |-> Absent, body |-> NoArgBody]

\* format!("{:?}", *req): the Debug text of the request value.
DebugText(b) ==
    "OrdersPostRequest { pair: \"" \o b.pair \o "\", order_type: \"" \o b.order_type \o "\" }"

\* DefaultClient::post_exchange_orders, from the result o of post_request_with_auth:
\* an error is passed on (?), a value with success is returned, and a value without
\* success becomes ResponseError with the value's own error as message.
post_exchange_orders(o, url, req) ==
    IF o.kind # "Ok" THEN o
    ELSE IF o.value.success = "true" THEN o
    ELSE ResponseErrorOutcome(o.value.error, url, DebugText(req))

\* The retry counter of a task that is not in a call: the local does not exist.
NoCount == 0 - 1

NoArgs == [verb |-> Absent, url |-> Absent, body |-> NoArgBody, schema |-> Absent]

Tasks == DOMAIN pc

----------------------------------------------------------------------------
(* make_signature in full: the message, HMAC-SHA256 and the hex text. *)

\* Bitwise operations on 16-bit numbers.
RECURSIVE Xor(_, _)
Xor(a, b) ==
    IF a = 0 THEN b
    ELSE IF b = 0 THEN a
    ELSE ((a + b) % 2) + 2 * Xor(a \div 2, b \div 2)

RECURSIVE And(_, _)
And(a, b) ==
    IF a = 0 \/ b = 0 THEN 0
    ELSE ((a % 2) * (b % 2)) + 2 * And(a \div 2, b \div 2)

\* A 32-bit word is a pair <<high half, low half>> of 16-bit numbers.
WXor(a, b) == <<Xor(a[1], b[1]), Xor(a[2], b[2])>>
WAnd(a, b) == <<And(a[1], b[1]), And(a[2], b[2])>>
WNot(a) == <<65535 - a[1], 65535 - a[2]>>
WAdd(a, b) ==
    LET lo == a[2] + b[2]
        hi == a[1] + b[1] + (lo \div 65536)
    IN <<hi % 65536, lo % 65536>>

Rotr(w, r) ==
    LET v == IF r >= 16 THEN <<w[2], w[1]>> ELSE w
        s == IF r >= 16 THEN r - 16 ELSE r
        p == 2 ^ s
        q == 2 ^ (16 - s)
    IN <<(v[1] \div p) + (v[2] % p) * q, (v[2] \div p) + (v[1] % p) * q>>

Shr(w, r) ==
    IF r >= 16 THEN <<0, w[1] \div (2 ^ (r - 16))>>
    ELSE LET p == 2 ^ r
             q == 2 ^ (16 - r)
         IN <<w[1] \div p, (w[2] \div p) + (w[1] % p) * q>>

\* The functions and constants of SHA-256 (FIPS 180-4).
BigSigma0(x) == WXor(WXor(Rotr(x, 2), Rotr(x, 13)), Rotr(x, 22))
BigSigma1(x) == WXor(WXor(Rotr(x, 6), Rotr(x, 11)), Rotr(x, 25))
SmallSigma0(x) == WXor(WXor(Rotr(x, 7), Rotr(x, 18)), Shr(x, 3))
SmallSigma1(x) == WXor(WXor(Rotr(x, 17), Rotr(x, 19)), Shr(x, 10))
Ch(x, y, z) == WXor(WAnd(x, y), WAnd(WNot(x), z))
Maj(x, y, z) == WXor(WXor(WAnd(x, y), WAnd(x, z)), WAnd(y, z))

RoundK ==
    <<
      <<17034, 12184>>, <<28983, 17553>>, <<46528, 64463>>, <<59829, 56229>>,
      <<14678, 49755>>, <<23025, 4593>>, <<37439, 33444>>, <<43804, 24277>>,
      <<55303, 43672>>, <<4739, 23297>>, <<9265, 34238>>, <<21772, 32195>>,
      <<29374, 23924>>, <<32990, 45566>>, <<39900, 1703>>, <<49563, 61812>>,
      <<58523, 27073>>, <<61374, 18310>>, <<4033, 40390>>, <<9228, 41420>>,
      <<11753, 11375>>, <<19060, 33962>>, <<23728, 43484>>, <<30457, 35034>>,
      <<38974, 20818>>, <<43057, 50797>>, <<45059, 10184>>, <<48985, 32711>>,
      <<50912, 3059>>, <<54695, 37191>>, <<1738, 25425>>, <<5161, 10599>>,
      <<10167, 2693>>, <<11803, 8504>>, <<19756, 28156>>, <<21304, 3347>>,
      <<25866, 29524>>, <<30314, 2747>>, <<33218, 51502>>, <<37490, 11397>>,
      <<41663, 59553>>, <<43034, 26187>>, <<49739, 35696>>, <<51052, 20899>>,
      <<53650, 59417>>, <<54937, 1572>>, <<62478, 13701>>, <<4202, 41072>>,
      <<6564, 49430>>, <<7735, 27656>>, <<10056, 30540>>, <<13488, 48309>>,
      <<14620, 3251>>, <<20184, 43594>>, <<23452, 51791>>, <<26670, 28659>>,
      <<29839, 33518>>, <<30885, 25455>>, <<33992, 30740>>, <<36039, 520>>,
      <<37054, 65530>>, <<42064, 27883>>, <<48889, 41975>>, <<50801, 30962>>
    >>

InitialHash ==
    <<
      <<27145, 58983>>, <<47975, 44677>>, <<15470, 62322>>, <<42319, 62778>>,
      <<20750, 21119>>, <<39685, 26764>>, <<8067, 55723>>, <<23520, 52505>>
    >>

RECURSIVE Schedule(_)
Schedule(W) ==
    IF Len(W) = 64 THEN W
    ELSE LET t == Len(W) + 1
             x == WAdd(WAdd(SmallSigma1(W[t - 2]), W[t - 7]),
                       WAdd(SmallSigma0(W[t - 15]), W[t - 16]))
         IN Schedule(Append(W, x))

\* The 64 rounds; the test on Len(st) has the state evaluated round by round.
RECURSIVE Rounds(_, _, _)
Rounds(st, W, t) ==
    IF t > 64 \/ Len(st) # 8 THEN st
    ELSE LET t1 == WAdd(WAdd(WAdd(st[8], BigSigma1(st[5])), Ch(st[5], st[6], st[7])),
                        WAdd(RoundK[t], W[t]))
             t2 == WAdd(BigSigma0(st[1]), Maj(st[1], st[2], st[3]))
         IN Rounds(<<WAdd(t1, t2), st[1], st[2], st[3], WAdd(st[4], t1), st[5], st[6], st[7]>>,
                   W, t + 1)

\* A block of 64 bytes as 16 words.
BlockWords(bs) == [i \in 1..16 |-> <<bs[4*i-3] * 256 + bs[4*i-2], bs[4*i-1] * 256 + bs[4*i]>>]

Compress(h, bs) ==
    LET W == Schedule(BlockWords(bs))
        st == Rounds(h, W, 1)
    IN [i \in 1..8 |-> WAdd(h[i], st[i])]

Zeros(n) == [i \in 1..n |-> 0]

Pad(bs) ==
    LET n == Len(bs)
        z == (55 - n) % 64
        bits == n * 8
    IN bs \o <<128>> \o Zeros(z) \o <<0, 0, 0, 0>>
          \o <<(bits \div 16777216) % 256, (bits \div 65536) % 256, (bits \div 256) % 256, bits % 256>>

RECURSIVE Blocks(_, _)
Blocks(h, bs) ==
    IF Len(bs) = 0 THEN h
    ELSE Blocks(Compress(h, SubSeq(bs, 1, 64)), SubSeq(bs, 65, Len(bs)))

WordBytes(w) == <<w[1] \div 256, w[1] % 256, w[2] \div 256, w[2] % 256>>

Sha256(bs) ==
    LET h == Blocks(InitialHash, Pad(bs))
    IN WordBytes(h[1]) \o WordBytes(h[2]) \o WordBytes(h[3]) \o WordBytes(h[4])
       \o WordBytes(h[5]) \o WordBytes(h[6]) \o WordBytes(h[7]) \o WordBytes(h[8])

\* HMAC (RFC 2104) with SHA-256: what Signer::new(MessageDigest::sha256(), &key)
\* computes over the bytes given to update().
Hmac(key, msg) ==
    LET k0 == IF Len(key) > 64 THEN Sha256(key) ELSE key
        k == k0 \o Zeros(64 - Len(k0))
        ipad == [i \in 1..64 |-> Xor(k[i], 54)]
        opad == [i \in 1..64 |-> Xor(k[i], 92)]
    IN Sha256(opad \o Sha256(ipad \o msg))

\* The digits of {:x}.
HexDigits == <<"0", "1", "2", "3", "4", "5", "6", "7", "8", "9", "a", "b", "c", "d", "e", "f">>

\* Mutant: the bytes formatted with {:x}, without the leading zero.
RECURSIVE Hex_Unpadded(_)
Hex_Unpadded(bs) ==
    IF Len(bs) = 0 THEN <<>>
    ELSE (IF bs[1] < 16 THEN <<>> ELSE <<HexDigits[(bs[1] \div 16) + 1]>>)
         \o <<HexDigits[(bs[1] % 16) + 1]>> \o Hex_Unpadded(Tail(bs))

\* The fold of format!("{}{:02x}", s, b) over the signature bytes, as characters.
RECURSIVE Hex(_)
Hex(bs) ==
    IF Len(bs) = 0 THEN <<>>
    ELSE <<HexDigits[(bs[1] \div 16) + 1], HexDigits[(bs[1] % 16) + 1]>> \o Hex(Tail(bs))

\* as_bytes(): the code of each character (ASCII).
Ord(ch) ==
    CASE
         ch = "\"" -> 34
      [] ch = "," -> 44
      [] ch = "-" -> 45
      [] ch = "." -> 46
      [] ch = "/" -> 47
      [] ch = "0" -> 48
      [] ch = "1" -> 49
      [] ch = "2" -> 50
      [] ch = "3" -> 51
      [] ch = "4" -> 52
      [] ch = "5" -> 53
      [] ch = "6" -> 54
      [] ch = "7" -> 55
      [] ch = "8" -> 56
      [] ch = "9" -> 57
      [] ch = ":" -> 58
      [] ch = "=" -> 61
      [] ch = "A" -> 65
      [] ch = "B" -> 66
      [] ch = "C" -> 67
      [] ch = "X" -> 88
      [] ch = "Y" -> 89
      [] ch = "Z" -> 90
      [] ch = "_" -> 95
      [] ch = "a" -> 97
      [] ch = "b" -> 98
      [] ch = "c" -> 99
      [] ch = "d" -> 100
      [] ch = "e" -> 101
      [] ch = "f" -> 102
      [] ch = "g" -> 103
      [] ch = "h" -> 104
      [] ch = "i" -> 105
      [] ch = "j" -> 106
      [] ch = "k" -> 107
      [] ch = "l" -> 108
      [] ch = "m" -> 109
      [] ch = "n" -> 110
      [] ch = "o" -> 111
      [] ch = "p" -> 112
      [] ch = "r" -> 114
      [] ch = "s" -> 115
      [] ch = "t" -> 116
      [] ch = "u" -> 117
      [] ch = "x" -> 120
      [] ch = "y" -> 121
      [] ch = "{" -> 123
      [] ch = "}" -> 125

Bytes(chars) == [i \in 1..Len(chars) |-> Ord(chars[i])]

\* format!("{}", nonce) as characters.
RECURSIVE DecimalChars(_)
DecimalChars(n) ==
    IF n < 10 THEN <<HexDigits[n + 1]>>
    ELSE DecimalChars(n \div 10) \o <<HexDigits[(n % 10) + 1]>>

\* make_signature on texts given as sequences of characters, down to the digest:
\* HMAC-SHA256 keyed by the secret over nonce, url and body, in lowercase hex.
make_signature_digest(n, url, body, secret) ==
    Hex(Hmac(Bytes(secret), Bytes(DecimalChars(n) \o url \o body)))

\* The texts signed in the checks of make_signature.
SignNonces == {0, 10, 12345, 1000000000}
SignUrls == {<<"h", "t", "t", "p", "s", ":", "/", "/", "e", "x", "a", "m", "p", "l", "e", ".", "c", "o", "m">>,
             <<"h", "t", "t", "p", "s", ":", "/", "/", "c", "o", "i", "n", "c", "h", "e", "c", "k", ".", "c", "o", "m", "/", "a", "p", "i", "/", "a", "c", "c", "o", "u", "n", "t", "s", "/", "b", "a", "l", "a", "n", "c", "e">>,
             <<"h", "t", "t", "p", "s", ":", "/", "/", "c", "o", "i", "n", "c", "h", "e", "c", "k", ".", "c", "o", "m", "/", "a", "p", "i", "/", "e", "x", "c", "h", "a", "n", "g", "e", "/", "o", "r", "d", "e", "r", "s">>}
SignBodies == {<<>>, <<"h", "o", "g", "e", "=", "f", "o", "o">>}
SignSecrets == {<<"a", "b", "c", "d", "e", "f", "g">>, <<"s", "e", "c", "r", "e", "t", "-", "A">>, <<"x", "x", "x", "x", "x", "x", "x", "x", "x", "x", "x", "x", "x", "x", "x", "x", "x", "x", "x", "x", "x", "x", "x", "x", "x", "x", "x", "x", "x", "x", "x", "x", "x", "x", "x", "x", "x", "x", "x", "x", "x", "x", "x", "x", "x", "x", "x", "x", "x", "x", "x", "x", "x", "x", "x", "x", "x", "x", "x", "x", "x", "x", "x", "x", "x", "x", "x", "x", "x", "x">>}
NoDigest == <<>>
NoSig == [nonce |-> 0, url |-> <<>>, body |-> <<>>, secret |-> <<>>, out |-> NoDigest]

----------------------------------------------------------------------------
(* The state after DefaultClient::new, with the given tasks idle. *)

InitWith(tasks) ==
    /\ access_key \in AccessKeys
    /\ secret_key \in SecretKeys
    /\ key_usable \in BOOLEAN
    /\ now = 0
    /\ blocked = 0
    /\ pc = [c \in tasks |-> "idle"]
    /\ args = [c \in tasks |-> NoArgs]
    /\ retry_count = [c \in tasks |-> NoCount]
    /\ nonce = [c \in tasks |-> 0]
    /\ json = [c \in tasks |-> Absent]
    /\ request = [c \in tasks |-> NoRequest]
    /\ res_text = [c \in tasks |-> NoText]
    /\ outcome = [c \in tasks |-> NoOutcome]
    /\ net = [c \in tasks |-> "none"]
    /\ requests = [c \in tasks |-> 0]
    /\ sleeps = [c \in tasks |-> 0]
    /\ slept_at = [c \in tasks |-> 0]
    /\ signs = [c \in tasks |-> 0]
    /\ recoverable = [c \in tasks |-> 0]
    /\ server = NoServer
    /\ drive = NoDrive
    /\ sig = NoSig

----------------------------------------------------------------------------
(* One pass of the loop body from its top to send(): the clock is read, the *)
(* body serialized (POST), the signature made and the request handed over.  *)

Attempt(c, a) ==
    LET d == duration_since(now)
    IN IF ~d.ok
       THEN \* duration_since(UNIX_EPOCH)? fails
            /\ pc' = [pc EXCEPT ![c] = "done"]
            /\ outcome' = [outcome EXCEPT ![c] = SystemTimeErrorOutcome]
            /\ net' = [net EXCEPT ![c] = "none"]
            /\ UNCHANGED <<nonce, json, request, requests, signs>>
       ELSE IF a.verb = "POST" /\ to_string(a.body) = Absent
       THEN \* serde_json::to_string(&body)? fails
            /\ pc' = [pc EXCEPT ![c] = "done"]
            /\ outcome' = [outcome EXCEPT ![c] = SerializeErrorOutcome]
            /\ nonce' = [nonce EXCEPT ![c] = d.millis]
            /\ net' = [net EXCEPT ![c] = "none"]
            /\ UNCHANGED <<json, request, requests, signs>>
       ELSE IF ~key_usable
       THEN \* make_signature: PKey::hmac(..).unwrap() or Signer::new(..).unwrap() panics
            /\ pc' = [pc EXCEPT ![c] = "panicked"]
            /\ nonce' = [nonce EXCEPT ![c] = d.millis]
            /\ json' = [json EXCEPT ![c] =
                   IF a.verb = "POST" THEN to_string(a.body) ELSE Absent]
            /\ net' = [net EXCEPT ![c] = "none"]
            /\ UNCHANGED <<request, requests, signs, outcome>>
       ELSE LET js == IF a.verb = "POST" THEN to_string(a.body) ELSE Absent
            IN /\ nonce' = [nonce EXCEPT ![c] = d.millis]
               /\ json' = [json EXCEPT ![c] = js]
               /\ signs' = [signs EXCEPT ![c] = @ + 1]
               /\ request' = [request EXCEPT ![c] =
                      BuildRequest(a.verb, a.url, d.millis, js, access_key, secret_key)]
               /\ requests' = [requests EXCEPT ![c] = @ + 1]
               /\ net' = [net EXCEPT ![c] = "sent"]
               /\ pc' = [pc EXCEPT ![c] = "send"]
               /\ UNCHANGED outcome


\* Mutant: the call does not set its retry counter; it goes on from what is there.
Call_KeepsCount(c, verb, url, body, schema) ==
    /\ pc[c] = "idle"
    /\ blocked = 0
    /\ LET a == [verb |-> verb, url |-> url, body |-> body, schema |-> schema]
       IN /\ args' = [args EXCEPT ![c] = a]
          /\ Attempt(c, a)
    /\ UNCHANGED <<access_key, secret_key, key_usable, now, blocked, retry_count, res_text,
                   sleeps, slept_at, recoverable>>

\* Mutant: the executor lets one call at a time build and send a request.
Call_Serialized(c, verb, url, body, schema) ==
    /\ pc[c] = "idle"
    /\ blocked = 0
    /\ \A d \in Tasks \ {c} : pc[d] \in {"idle", "done", "panicked"}
    /\ LET a == [verb |-> verb, url |-> url, body |-> body, schema |-> schema]
       IN /\ args' = [args EXCEPT ![c] = a]
          /\ retry_count' = [retry_count EXCEPT ![c] = 0]
          /\ Attempt(c, a)
    /\ UNCHANGED <<access_key, secret_key, key_usable, now, blocked, res_text, sleeps, slept_at,
                   recoverable>>

(* A caller invokes one of the three executors: the first poll of the call. *)
Call(c, verb, url, body, schema) ==
    /\ pc[c] = "idle"
    /\ blocked = 0
    /\ LET a == [verb |-> verb, url |-> url, body |-> body, schema |-> schema]
       IN /\ args' = [args EXCEPT ![c] = a]
          /\ retry_count' = [retry_count EXCEPT ![c] = 0]
          /\ Attempt(c, a)
    /\ UNCHANGED <<access_key, secret_key, key_usable, now, blocked, res_text, sleeps, slept_at, recoverable>>

(* Mutant: a failed send() is retried after the sleep instead of returned. *)
SendFails_Retried(c) ==
    /\ pc[c] = "send"
    /\ blocked = 0
    /\ net' = [net EXCEPT ![c] = "send_error"]
    /\ retry_count' = [retry_count EXCEPT ![c] = @ + 1]
    /\ IF BudgetRemains(retry_count[c] + 1)
       THEN /\ pc' = [pc EXCEPT ![c] = "sleep"]
            /\ blocked' = c
            /\ sleeps' = [sleeps EXCEPT ![c] = @ + 1]
            /\ slept_at' = [slept_at EXCEPT ![c] = now]
            /\ UNCHANGED outcome
       ELSE /\ pc' = [pc EXCEPT ![c] = "done"]
            /\ outcome' = [outcome EXCEPT ![c] = TransportErrorOutcome("send")]
            /\ UNCHANGED <<blocked, sleeps, slept_at>>
    /\ UNCHANGED <<access_key, secret_key, key_usable, now, args, nonce, json, request, res_text,
                   requests, signs, recoverable>>

(* send().await? fails: the transport error is returned. *)
SendFails(c) ==
    /\ pc[c] = "send"
    /\ blocked = 0
    /\ pc' = [pc EXCEPT ![c] = "done"]
    /\ outcome' = [outcome EXCEPT ![c] = TransportErrorOutcome("send")]
    /\ net' = [net EXCEPT ![c] = "send_error"]
    /\ UNCHANGED <<access_key, secret_key, key_usable, now, blocked, args, retry_count, nonce, json,
                   request, res_text, requests, sleeps, slept_at, signs, recoverable>>

(* send().await? yields the response head; text() is awaited next. *)
SendReturns(c) ==
    /\ pc[c] = "send"
    /\ blocked = 0
    /\ pc' = [pc EXCEPT ![c] = "text"]
    /\ net' = [net EXCEPT ![c] = "head"]
    /\ UNCHANGED <<access_key, secret_key, key_usable, now, blocked, args, retry_count, nonce, json,
                   request, res_text, outcome, requests, sleeps, slept_at, signs, recoverable>>

(* text().await? fails: the transport error is returned. *)
TextFails(c) ==
    /\ pc[c] = "text"
    /\ blocked = 0
    /\ pc' = [pc EXCEPT ![c] = "done"]
    /\ outcome' = [outcome EXCEPT ![c] = TransportErrorOutcome("text")]
    /\ net' = [net EXCEPT ![c] = "text_error"]
    /\ UNCHANGED <<access_key, secret_key, key_usable, now, blocked, args, retry_count, nonce, json,
                   request, res_text, requests, sleeps, slept_at, signs, recoverable>>

(* text().await? yields res_text; it is decoded and the call returns, or    *)
(* counts a retry and enters std::thread::sleep.                            *)
Decode(c, t) ==
    /\ pc[c] = "text"
    /\ blocked = 0
    /\ res_text' = [res_text EXCEPT ![c] = t]
    /\ net' = [net EXCEPT ![c] = "body"]
    /\ recoverable' = [recoverable EXCEPT ![c] =
           IF IsRecoverable(args[c].schema, t) THEN @ + 1 ELSE @]
    /\ LET kind == Classify(args[c].schema, t)
           failed == ResponseErrorOutcome(ErrorMessage(t), args[c].url,
                         ErrorRequest(args[c].verb, json[c]))
       IN IF kind = "success"
          THEN /\ pc' = [pc EXCEPT ![c] = "done"]
               /\ outcome' = [outcome EXCEPT
                      ![c] = OkOutcome(DecodeAs(args[c].schema, t))]
               /\ UNCHANGED <<retry_count, blocked, sleeps, slept_at>>
          ELSE IF kind = "error"
          THEN IF should_retry(ErrorMessage(t))
               THEN /\ retry_count' = [retry_count EXCEPT ![c] = @ + 1]
                    /\ IF BudgetRemainsIn(args[c].verb, retry_count[c] + 1)
                       THEN /\ pc' = [pc EXCEPT ![c] = "sleep"]
                            /\ blocked' = c
                            /\ sleeps' = [sleeps EXCEPT ![c] = @ + 1]
                            /\ slept_at' = [slept_at EXCEPT ![c] = now]
                            /\ UNCHANGED outcome
                       ELSE /\ pc' = [pc EXCEPT ![c] = "done"]
                            /\ outcome' = [outcome EXCEPT ![c] = failed]
                            /\ UNCHANGED <<blocked, sleeps, slept_at>>
               ELSE /\ pc' = [pc EXCEPT ![c] = "done"]
                    /\ outcome' = [outcome EXCEPT ![c] = failed]
                    /\ UNCHANGED <<retry_count, blocked, sleeps, slept_at>>
          ELSE /\ pc' = [pc EXCEPT ![c] = "done"]
               /\ outcome' = [outcome EXCEPT ![c] = ParseErrorOutcome(t)]
               /\ UNCHANGED <<retry_count, blocked, sleeps, slept_at>>
    /\ UNCHANGED <<access_key, secret_key, key_usable, now, args, nonce, json, request, requests, signs>>


\* Mutant: the woken call sends the request of its previous attempt again.
Wake_Resend(c) ==
    /\ pc[c] = "sleep"
    /\ blocked = c
    /\ blocked' = 0
    /\ slept_at' = [slept_at EXCEPT ![c] = 0]
    /\ requests' = [requests EXCEPT ![c] = @ + 1]
    /\ net' = [net EXCEPT ![c] = "sent"]
    /\ pc' = [pc EXCEPT ![c] = "send"]
    /\ UNCHANGED <<access_key, secret_key, key_usable, now, args, retry_count, nonce, json,
                   request, res_text, outcome, sleeps, signs, recoverable>>

(* std::thread::sleep returns and `continue` runs the next pass up to send(). *)
Wake(c) ==
    /\ pc[c] = "sleep"
    /\ blocked = c
    /\ blocked' = 0
    /\ slept_at' = [slept_at EXCEPT ![c] = 0]
    /\ Attempt(c, args[c])
    /\ UNCHANGED <<access_key, secret_key, key_usable, now, args, retry_count, res_text, sleeps,
                   recoverable>>

(* The caller takes the result; the task is free for the next call.  The locals of *)
(* the call are dropped: retry_count does not exist until the next call's          *)
(* `let mut retry_count: i32 = 0`.                                                 *)
Return(c) ==
    /\ pc[c] = "done"
    /\ blocked = 0
    /\ pc' = [pc EXCEPT ![c] = "idle"]
    /\ args' = [args EXCEPT ![c] = NoArgs]
    /\ retry_count' = [retry_count EXCEPT ![c] = NoCount]
    /\ nonce' = [nonce EXCEPT ![c] = 0]
    /\ json' = [json EXCEPT ![c] = Absent]
    /\ request' = [request EXCEPT ![c] = NoRequest]
    /\ res_text' = [res_text EXCEPT ![c] = NoText]
    /\ outcome' = [outcome EXCEPT ![c] = NoOutcome]
    /\ net' = [net EXCEPT ![c] = "none"]
    /\ requests' = [requests EXCEPT ![c] = 0]
    /\ sleeps' = [sleeps EXCEPT ![c] = 0]
    /\ slept_at' = [slept_at EXCEPT ![c] = 0]
    /\ signs' = [signs EXCEPT ![c] = 0]
    /\ recoverable' = [recoverable EXCEPT ![c] = 0]
    /\ UNCHANGED <<access_key, secret_key, key_usable, now, blocked>>

(* The system clock moves forward. *)
Tick ==
    /\ now + TickMs <= MaxClock
    /\ now' = now + TickMs
    /\ UNCHANGED <<access_key, secret_key, key_usable, blocked, pc, args, retry_count, nonce, json,
                   request, res_text, outcome, net, requests, sleeps, slept_at, signs, recoverable>>

(* The system clock is set back (SystemTime is not monotonic), possibly to  *)
(* before the epoch.                                                        *)
ClockSetBack ==
    /\ \E t \in ClockVals : t < now /\ now' = t
    /\ UNCHANGED <<access_key, secret_key, key_usable, blocked, pc, args, retry_count, nonce, json,
                   request, res_text, outcome, net, requests, sleeps, slept_at, signs, recoverable>>

\* The body argument: post_request_with_auth alone takes one.
BodiesOf(verb) == IF verb = "POST" THEN Bodies ELSE {NoArgBody}

(* A caller starts any of the three executors with any arguments. *)
CallAny(c) ==
    \E verb \in Verbs, url \in Urls, schema \in Schemas :
        \E body \in BodiesOf(verb) : Call(c, verb, url, body, schema)

(* The server answers with any text. *)
DecodeAny(c) == \E t \in Texts : Decode(c, t)

Next ==
    \/ \E c \in Tasks : CallAny(c) /\ UNCHANGED env
    \/ \E c \in Tasks : SendFails(c) /\ UNCHANGED env
    \/ \E c \in Tasks : SendReturns(c) /\ UNCHANGED env
    \/ \E c \in Tasks : TextFails(c) /\ UNCHANGED env
    \/ \E c \in Tasks : DecodeAny(c) /\ UNCHANGED env
    \/ \E c \in Tasks : Wake(c) /\ UNCHANGED env
    \/ \E c \in Tasks : Return(c) /\ UNCHANGED env
    \/ Tick /\ UNCHANGED env
    \/ ClockSetBack /\ UNCHANGED env

(* One caller issuing calls one after another. *)
Init == InitWith({1})
Spec == Init /\ [][Next]_vars

\* The scheduling the runtime and the transport give one call: a request handed to
\* send() is answered or fails, a response is read or fails, and a sleep returns.
Fairness ==
    \A c \in {1} :
        /\ WF_vars((SendFails(c) \/ SendReturns(c)) /\ UNCHANGED env)
        /\ WF_vars((TextFails(c) \/ DecodeAny(c)) /\ UNCHANGED env)
        /\ WF_vars(Wake(c) /\ UNCHANGED env)

SpecLive == Init /\ [][Next]_vars /\ Fairness

(* Two calls of one client polled concurrently on one thread, as the branches of a  *)
(* join of two of its futures are.  The arguments and the answers are a subset of   *)
(* those of Spec.                                                                   *)
ConcTasks == {1, 2}
ConcVerbs == {"GET", "POST"}
ConcTexts == {TextOk, TextNonce}

CallConc(c) ==
    \E verb \in ConcVerbs :
        Call(c, verb, UrlBalance, IF verb = "POST" THEN BodyBuy ELSE NoArgBody, "strict")

DecodeConc(c) == \E t \in ConcTexts : Decode(c, t)

NextConc ==
    \/ \E c \in Tasks : CallConc(c) /\ UNCHANGED env
    \/ \E c \in Tasks : SendFails(c) /\ UNCHANGED env
    \/ \E c \in Tasks : SendReturns(c) /\ UNCHANGED env
    \/ \E c \in Tasks : TextFails(c) /\ UNCHANGED env
    \/ \E c \in Tasks : DecodeConc(c) /\ UNCHANGED env
    \/ \E c \in Tasks : Wake(c) /\ UNCHANGED env
    \/ \E c \in Tasks : Return(c) /\ UNCHANGED env
    \/ Tick /\ UNCHANGED env
    \/ ClockSetBack /\ UNCHANGED env

InitConc ==
    /\ InitWith(ConcTasks)
    /\ access_key = "access-A"
    /\ secret_key = "secret-A"

SpecConc == InitConc /\ [][NextConc]_vars

----------------------------------------------------------------------------
(* One caller under a clock that behaves: it is never set back, and every  *)
(* std::thread::sleep(RETRY_INTERVAL_MS) spans at least that much of it.   *)

SleepElapsed(c) == now >= slept_at[c] + RETRY_INTERVAL_MS

NextMono ==
    \/ \E c \in Tasks : CallAny(c) /\ UNCHANGED env
    \/ \E c \in Tasks : SendFails(c) /\ UNCHANGED env
    \/ \E c \in Tasks : SendReturns(c) /\ UNCHANGED env
    \/ \E c \in Tasks : TextFails(c) /\ UNCHANGED env
    \/ \E c \in Tasks : DecodeAny(c) /\ UNCHANGED env
    \/ \E c \in Tasks : SleepElapsed(c) /\ Wake(c) /\ UNCHANGED env
    \/ \E c \in Tasks : Return(c) /\ UNCHANGED env
    \/ Tick /\ UNCHANGED env

SpecMono == Init /\ [][NextMono]_vars

----------------------------------------------------------------------------
(* One caller, the clock that behaves, and the server the nonce is for: it *)
(* accepts a request whose nonce is greater than the last one it accepted  *)
(* and answers every other with the error "Nonce must be incremented".     *)

ServerReceives(sv, n) ==
    IF n > sv.last_accepted
    THEN [last_accepted |-> n, reply |-> TextOk]
    ELSE [last_accepted |-> sv.last_accepted, reply |-> TextNonce]

\* The authenticated methods of the client, as the arguments they give the executors:
\* get_accounts_balance, post_exchange_orders and delete_exchange_orders (order 7).
\* OrdersPostResponse has a success flag and an error of its own; the other response
\* types have a field of their own that the caller reads.
UrlOrdersId == BASE_URL \o "/api/exchange/orders/" \o Decimal(7)
ClientCalls ==
    {[verb |-> "GET", url |-> UrlBalance, body |-> NoArgBody, schema |-> "strict"],
     [verb |-> "DELETE", url |-> UrlOrdersId, body |-> NoArgBody, schema |-> "strict"]}
    \cup {[verb |-> "POST", url |-> UrlOrders, body |-> b, schema |-> "lenient"] :
              b \in {BodyBuy, BodySell}}

CallClient(c) == \E a \in ClientCalls : Call(c, a.verb, a.url, a.body, a.schema)

(* The request reaches the server, which answers it; send() returns. *)
ServerAnswers(c) ==
    /\ SendReturns(c)
    /\ server' = ServerReceives(server, nonce[c])
    /\ UNCHANGED <<drive, sig>>

NextServer ==
    \/ \E c \in Tasks : CallClient(c) /\ UNCHANGED env
    \/ \E c \in Tasks : SendFails(c) /\ UNCHANGED env
    \/ \E c \in Tasks : ServerAnswers(c)
    \/ \E c \in Tasks : TextFails(c) /\ UNCHANGED env
    \/ \E c \in Tasks : Decode(c, server.reply) /\ UNCHANGED env
    \/ \E c \in Tasks : SleepElapsed(c) /\ Wake(c) /\ UNCHANGED env
    \/ \E c \in Tasks : Return(c) /\ UNCHANGED env
    \/ Tick /\ UNCHANGED env

SpecServer == Init /\ [][NextServer]_vars

----------------------------------------------------------------------------
(* make_signature on its own: texts are chosen and signed. *)

Pick ==
    /\ \E n \in SignNonces, u \in SignUrls, b \in SignBodies, k \in SignSecrets :
          sig' = [nonce |-> n, url |-> u, body |-> b, secret |-> k, out |-> NoDigest]
    /\ UNCHANGED <<access_key, secret_key, key_usable, now, blocked, pc, args, retry_count,
                   nonce, json, request, res_text, outcome, net, requests, sleeps,
                   slept_at, signs, recoverable, server, drive>>

Sign ==
    /\ sig.secret # <<>> /\ sig.out = NoDigest
    /\ sig' = [sig EXCEPT !.out = make_signature_digest(sig.nonce, sig.url, sig.body, sig.secret)]
    /\ UNCHANGED <<access_key, secret_key, key_usable, now, blocked, pc, args, retry_count,
                   nonce, json, request, res_text, outcome, net, requests, sleeps,
                   slept_at, signs, recoverable, server, drive>>

NextSign ==
    \/ Pick
    \/ Sign

InitSign ==
    /\ InitWith({1})
    /\ access_key = "access-A"
    /\ secret_key = "secret-A"
    /\ key_usable

SpecSign == InitSign /\ [][NextSign]_vars

----------------------------------------------------------------------------
(* The three executors side by side: task 1 runs get_request_with_auth,    *)
(* task 2 post_request_with_auth and task 3 delete_request_with_auth, with *)
(* the same URL and schema, and each event of the environment (the call,   *)
(* the transport's answer, the response text) is fed to all three before   *)
(* the next one is chosen; the clock moves only between events.  A task    *)
(* that an event puts to sleep wakes before the next task takes the event. *)

ShapeTasks == {1, 2, 3}
VerbOf(c) == CASE c = 1 -> "GET" [] c = 2 -> "POST" [] c = 3 -> "DELETE"
ShapeBodies == {b \in Bodies : to_string(b) # Absent}

\* Every executor has taken the event being fed.
Aligned == \A c \in Tasks : pc[c] \notin {drive.from, "sleep"}

Event(p, k, t, u, s, b) ==
    [from |-> p, kind |-> k, text |-> t, url |-> u, schema |-> s, body |-> b]

\* The events the environment can feed to executors that are all at position p.
EventsAt(p) ==
    CASE p = "idle" ->
           {Event(p, "call", NoText, u, s, b) :
                u \in Urls, s \in Schemas, b \in ShapeBodies}
      [] p = "send" ->
           {Event(p, k, NoText, Absent, Absent, NoArgBody) : k \in {"send_ok", "send_fail"}}
      [] p = "text" ->
           {Event(p, "text", t, Absent, Absent, NoArgBody) : t \in Texts}
           \cup {Event(p, "text_fail", NoText, Absent, Absent, NoArgBody)}
      [] p = "done" -> {Event(p, "return", NoText, Absent, Absent, NoArgBody)}
      [] OTHER -> {}

Drive ==
    /\ Aligned
    /\ \A c \in Tasks : pc[c] = pc[1]
    /\ \E e \in EventsAt(pc[1]) : drive' = e
    /\ UNCHANGED <<access_key, secret_key, key_usable, now, blocked, pc, args, retry_count,
                   nonce, json, request, res_text, outcome, net, requests, sleeps,
                   slept_at, signs, recoverable, server, sig>>

Takes(c, k) == drive.kind = k /\ pc[c] = drive.from

ShapeCall(c) ==
    /\ Takes(c, "call")
    /\ Call(c, VerbOf(c), drive.url,
            IF VerbOf(c) = "POST" THEN drive.body ELSE NoArgBody, drive.schema)

NextShape ==
    \/ Drive
    \/ \E c \in Tasks : ShapeCall(c) /\ UNCHANGED env
    \/ \E c \in Tasks : Takes(c, "send_fail") /\ SendFails(c) /\ UNCHANGED env
    \/ \E c \in Tasks : Takes(c, "send_ok") /\ SendReturns(c) /\ UNCHANGED env
    \/ \E c \in Tasks : Takes(c, "text_fail") /\ TextFails(c) /\ UNCHANGED env
    \/ \E c \in Tasks : Takes(c, "text") /\ Decode(c, drive.text) /\ UNCHANGED env
    \/ \E c \in Tasks : Wake(c) /\ UNCHANGED env
    \/ \E c \in Tasks : Takes(c, "return") /\ Return(c) /\ UNCHANGED env
    \/ Aligned /\ Tick /\ UNCHANGED env
    \/ Aligned /\ ClockSetBack /\ UNCHANGED env

InitShape == InitWith(ShapeTasks)

SpecShape == InitShape /\ [][NextShape]_vars

----------------------------------------------------------------------------
(* Properties. *)

\* The call of task c ended in the decode of a response.
Decoded(c) == pc[c] = "done" /\ net[c] = "body"

\* C1 (retry bound): a call whose every attempt was answered with the recoverable
\* error "Nonce must be incremented" has sent exactly 6 requests when it ends, and
\* ends with ResponseError carrying that message; this for GET, POST and DELETE.
C1_RetryBound ==
    \A c \in Tasks :
        (Decoded(c) /\ recoverable[c] = requests[c])
            => /\ requests[c] = 6
               /\ sleeps[c] = 5
               /\ outcome[c].kind = "ResponseError"
               /\ outcome[c].message = "Nonce must be incremented"

C1_Witness ==
    \E c \in Tasks :
        /\ Decoded(c) /\ recoverable[c] = requests[c]
        /\ requests[c] = 6 /\ args[c].verb = "DELETE"
        /\ outcome[c].kind = "ResponseError"

\* A step in which task c reads a server error that is not the recoverable one.
NonRecoverableDecode(c) ==
    /\ pc[c] = "text" /\ net'[c] = "body"
    /\ ~DecodesAs(args[c].schema, res_text'[c])
    /\ DecodesAsError(res_text'[c])
    /\ ErrorMessage(res_text'[c]) # "Nonce must be incremented"

\* C2 (retry selectivity): the decode of a server error whose message is anything but
\* exactly "Nonce must be incremented" ends the call in that step with ResponseError:
\* no request is sent, no sleep starts and the thread is not held, whatever budget
\* remains; if it was the first response, one request was sent and no sleep made.
C2_RetrySelectivity ==
    [][\A c \in Tasks :
          NonRecoverableDecode(c)
              => /\ pc'[c] = "done"
                 /\ outcome'[c].kind = "ResponseError"
                 /\ outcome'[c].message = ErrorMessage(res_text'[c])
                 /\ requests'[c] = requests[c]
                 /\ sleeps'[c] = sleeps[c]
                 /\ retry_count'[c] = retry_count[c]
                 /\ blocked' = blocked
                 /\ (recoverable[c] = 0 => requests'[c] = 1 /\ sleeps'[c] = 0)]_vars

\* A call ended by an error that differs from the recoverable one in case only, on a
\* retried attempt with budget left.
C2_Witness ==
    \E c \in Tasks :
        /\ Decoded(c) /\ res_text[c] = TextCase
        /\ outcome[c].kind = "ResponseError"
        /\ requests[c] = 3 /\ retry_count[c] = 2 /\ sleeps[c] = 2

\* C3 (recovery): a call answered N < 5 times with the recoverable error and then with
\* a body of the success schema returns that success value after exactly N + 1
\* requests, with nothing of the earlier errors in the result; and no call is given
\* up with the recoverable error after fewer than 5 such answers.
C3_Recovery ==
    \A c \in Tasks :
        /\ (Decoded(c) /\ recoverable[c] < 5 /\ DecodesAs(args[c].schema, res_text[c]))
               => /\ requests[c] = recoverable[c] + 1
                  /\ outcome[c] = OkOutcome(DecodeAs(args[c].schema, res_text[c]))
                  /\ outcome[c].message = Absent
        /\ (Decoded(c) /\ IsRecoverable(args[c].schema, res_text[c]))
               => recoverable[c] > 5

C3_Witness ==
    \E c \in Tasks :
        /\ Decoded(c) /\ recoverable[c] = 4 /\ requests[c] = 5
        /\ res_text[c] = TextOk /\ outcome[c].kind = "Ok"

\* C4 (decoder precedence): a response text that satisfies the caller's success schema
\* is returned as the success value, also when it satisfies the error schema as well;
\* it never gives ResponseError, a retry or a sleep, on any attempt of any verb.
C4_DecoderPrecedence ==
    \A c \in Tasks :
        (net[c] = "body" /\ DecodesAs(args[c].schema, res_text[c]))
            => /\ pc[c] = "done"
               /\ outcome[c] = OkOutcome(DecodeAs(args[c].schema, res_text[c]))
               /\ sleeps[c] = requests[c] - 1

\* A text of both schemas, carrying the recoverable message, returned as a success on
\* a retried attempt.
C4_Witness ==
    \E c \in Tasks :
        /\ Decoded(c) /\ res_text[c] = TextBoth /\ args[c].schema = "strict"
        /\ DecodesAsError(res_text[c])
        /\ outcome[c].kind = "Ok" /\ outcome[c].value.id = 7
        /\ requests[c] = 2

\* C5 (decoder exhaustiveness): a response text of neither schema ends the call at
\* that attempt with ParseError carrying that very text; no retry or sleep follows,
\* whatever budget remains and whatever the earlier attempts were.
C5_DecoderExhaustiveness ==
    \A c \in Tasks :
        (net[c] = "body" /\ ~DecodesAs(args[c].schema, res_text[c])
                         /\ ~DecodesAsError(res_text[c]))
            => /\ pc[c] = "done"
               /\ outcome[c].kind = "ParseError"
               /\ outcome[c].text = res_text[c]
               /\ outcome[c].text.raw = res_text[c].raw
               /\ requests[c] = recoverable[c] + 1
               /\ sleeps[c] = recoverable[c]
               /\ retry_count[c] = recoverable[c]

C5_Witness ==
    \E c \in Tasks :
        /\ Decoded(c) /\ res_text[c] = TextHtml
        /\ outcome[c].kind = "ParseError"
        /\ recoverable[c] = 2 /\ requests[c] = 3

\* C6 (transport failure): a failure of send() or of text(), on a first or a retried
\* attempt, ends the call with the transport error: the requests sent stay those of
\* the attempts made, no sleep follows it and the thread is not held.
C6_TransportFailureTerminal ==
    \A c \in Tasks :
        net[c] \in {"send_error", "text_error"}
            => /\ pc[c] = "done"
               /\ outcome[c].kind = "TransportError"
               /\ requests[c] = retry_count[c] + 1
               /\ sleeps[c] = retry_count[c]
               /\ blocked # c

C6_Witness ==
    \E c \in Tasks :
        /\ net[c] = "text_error" /\ pc[c] = "done"
        /\ retry_count[c] = 3 /\ requests[c] = 4
        /\ outcome[c].kind = "TransportError"

\* C7 (header correctness): the request of every attempt carries ACCESS-KEY equal to
\* the stored access key, ACCESS-NONCE the decimal form of that attempt's nonce n, and
\* ACCESS-SIGNATURE equal to sign(n, U, B, secret) for the URL U it is sent to, with B
\* empty for GET and DELETE, which send no body, and B the JSON text sent as the body
\* for POST, which also sends Content-Type: application/json.
C7_HeaderCorrectness ==
    \A c \in Tasks :
        pc[c] \in {"send", "text"}
            => LET r == request[c]
                   B == IF r.verb = "POST" THEN r.body ELSE ""
               IN /\ r.verb = args[c].verb
                  /\ r.url = args[c].url
                  /\ r.ACCESS_KEY = access_key
                  /\ r.ACCESS_NONCE = Decimal(nonce[c])
                  /\ r.ACCESS_SIGNATURE = make_signature(nonce[c], r.url, B, secret_key)
                  /\ (r.verb = "POST"
                         => /\ r.body = to_string(args[c].body)
                            /\ r.body # NoBody /\ r.body # Absent
                            /\ r.Content_Type = "application/json")
                  /\ (r.verb # "POST" => r.body = NoBody /\ r.Content_Type = Absent)

\* A retried POST in flight at a later clock reading.
C7_Witness ==
    \E c \in Tasks :
        /\ pc[c] = "send" /\ args[c].verb = "POST" /\ retry_count[c] = 1
        /\ nonce[c] > 0 /\ request[c].ACCESS_NONCE = Decimal(now) /\ now > 0
        /\ request[c].body = to_string(BodySell)

\* The kinds of result a call can return.
OutcomeKinds ==
    {"None", "Ok", "ResponseError", "ParseError", "TransportError", "SystemTimeError",
     "SerializeError"}

\* C9 (terminal ResponseError): a call stopped by a non-recoverable server error and
\* a call stopped by the exhausted budget end with the same kind, ResponseError, which
\* carries the message of the last response, the request URL and, as request text,
\* the JSON body of the last attempt for POST and "" for GET and DELETE.
C9_TerminalResponseError ==
    \A c \in Tasks :
        /\ outcome[c].kind \in OutcomeKinds
        /\ (Decoded(c) /\ ~DecodesAs(args[c].schema, res_text[c])
                       /\ DecodesAsError(res_text[c]))
               => /\ outcome[c].kind = "ResponseError"
                  /\ outcome[c].message = ErrorMessage(res_text[c])
                  /\ outcome[c].url = args[c].url
                  /\ outcome[c].url = request[c].url
                  /\ outcome[c].request =
                         (IF args[c].verb = "POST" THEN request[c].body ELSE "")
        /\ (Decoded(c) /\ outcome[c].kind = "ResponseError")
               => /\ ~DecodesAs(args[c].schema, res_text[c])
                  /\ DecodesAsError(res_text[c])

\* A POST stopped by the exhausted budget.
C9_Witness ==
    \E c \in Tasks :
        /\ Decoded(c) /\ outcome[c].kind = "ResponseError"
        /\ args[c].verb = "POST" /\ retry_count[c] = 6
        /\ outcome[c].request = to_string(BodyBuy)
        /\ outcome[c].message = NonceMessage

\* A step in which task c starts an attempt: its first, or one after the sleep.
AttemptStarts(c) == pc[c] \in {"idle", "sleep"} /\ pc'[c] # pc[c]

\* C10 (clock before the epoch): an attempt, first or retried, that starts while the
\* clock reads a time before the epoch ends the call in that step with the clock's
\* error: no request is sent, nothing is signed and no sleep or attempt follows.
C10_ClockBeforeEpoch ==
    [][\A c \in Tasks :
          (AttemptStarts(c) /\ now < 0)
              => /\ pc'[c] = "done"
                 /\ outcome'[c].kind = "SystemTimeError"
                 /\ requests'[c] = requests[c]
                 /\ request'[c] = request[c]
                 /\ signs'[c] = signs[c]
                 /\ sleeps'[c] = sleeps[c]
                 /\ blocked' = 0]_vars

\* A retried attempt that found the clock before the epoch.
C10_Witness ==
    \E c \in Tasks :
        /\ pc[c] = "done" /\ outcome[c].kind = "SystemTimeError"
        /\ now < 0
        /\ retry_count[c] = 2 /\ requests[c] = 2 /\ signs[c] = 2 /\ sleeps[c] = 2

\* Some poll of task d can run.
CanProgress(d) ==
    ENABLED (\/ CallConc(d) \/ SendFails(d) \/ SendReturns(d) \/ TextFails(d)
             \/ DecodeConc(d) \/ Wake(d) \/ Return(d))

\* C8 (the retry wait blocks only its call): while one call is in its retry wait,
\* another call of the same client on the same thread, with a request in flight, can
\* still make progress.
C8_SleepBlocksOnlyCaller ==
    \A c \in Tasks, d \in Tasks :
        (c # d /\ pc[c] = "sleep" /\ pc[d] \in {"send", "text"}) => CanProgress(d)

\* A call of task c has ended: it returned to its caller or it unwound in a panic.
Ended(c) == pc[c] \in {"done", "panicked"}

\* C11 (one outcome per call): every call that has ended has reported exactly one
\* outcome to its caller, a success value or an error, and a call that has not ended
\* has reported none; a failure to sign, too, ends the call with an error outcome.
C11_OneOutcomePerCall ==
    \A c \in Tasks :
        /\ Ended(c) => outcome[c].kind \in OutcomeKinds \ {"None"}
        /\ ~Ended(c) => outcome[c].kind = "None"

\* C13 (fresh nonce and signature): every attempt that sends reads the clock anew and
\* signs with that reading: its nonce is the clock's reading of that step, its
\* signature is made in that step from that nonce, and nothing of the request is kept
\* from the attempt before; under a clock that is never set back and advances by the
\* 10 ms slept, the nonce of a retried attempt is greater than the one before it.
C13_FreshNonce ==
    [][\A c \in Tasks :
          (AttemptStarts(c) /\ pc'[c] = "send")
              => /\ nonce'[c] = now
                 /\ signs'[c] = signs[c] + 1
                 /\ request'[c].ACCESS_NONCE = Decimal(now)
                 /\ request'[c].ACCESS_SIGNATURE =
                        make_signature(now, args'[c].url,
                            SignedBody(args'[c].verb, to_string(args'[c].body)),
                            secret_key)
                 /\ (pc[c] = "sleep"
                        => /\ nonce'[c] > nonce[c]
                           /\ request'[c].ACCESS_NONCE # request[c].ACCESS_NONCE
                           /\ request'[c].ACCESS_SIGNATURE # request[c].ACCESS_SIGNATURE)]_vars

\* The third attempt of a call in flight, its nonce the reading of a later clock.
C13_Witness ==
    \E c \in Tasks :
        /\ pc[c] = "send" /\ retry_count[c] = 2 /\ signs[c] = 3
        /\ nonce[c] = now /\ nonce[c] >= 2 * RETRY_INTERVAL_MS
        /\ request[c].ACCESS_NONCE = Decimal(nonce[c])

\* What task c's call holds of its own: its position, arguments, locals and counts.
Locals(c) ==
    <<pc[c], args[c], retry_count[c], nonce[c], json[c], request[c], res_text[c],
      outcome[c], net[c], requests[c], sleeps[c], slept_at[c], signs[c], recoverable[c]>>

\* C14 (concurrent calls are independent): calls on one executor are not serialized:
\* a caller whose thread runs can start a call whatever the other calls are doing, so
\* two requests with one nonce can be in flight; each call has its own nonce and retry
\* counter, which counts its own rejections only, and a step of one call leaves the
\* position, counts and outcome of every other call as they were.
C14_ConcurrentCallsIndependent ==
    /\ [](\A c \in Tasks :
            /\ (pc[c] = "idle" /\ blocked = 0) => ENABLED CallConc(c)
            /\ pc[c] \in {"send", "text", "sleep", "done"}
                   => retry_count[c] = recoverable[c])
    /\ [][\A c \in Tasks :
            Locals(c)' # Locals(c)
                => \A d \in Tasks \ {c} : Locals(d)' = Locals(d)]_vars

\* Two calls in flight with one nonce, the first on its third attempt after two
\* rejections, the second on its first.
C14_Witness ==
    /\ pc[1] \in {"send", "text"} /\ pc[2] \in {"send", "text"}
    /\ request[1].ACCESS_NONCE = request[2].ACCESS_NONCE
    /\ request[1].ACCESS_KEY = request[2].ACCESS_KEY
    /\ retry_count[1] = 2 /\ requests[1] = 3
    /\ retry_count[2] = 0 /\ requests[2] = 1

\* The final attempt of the ended call of task c got as far as sending its request.
FinalAttemptSent(c) == pc[c] = "done" /\ net[c] # "none"

\* C15 as stated (bounded attempt loop): a call sends at most 6 requests and its retry
\* counter never exceeds 6; when it has ended, it has slept exactly once between each
\* two requests and at no other time: sleeps = requests - 1 <= 5.
C15_SleepsOneLessThanRequests ==
    \A c \in Tasks :
        /\ requests[c] <= 6
        /\ retry_count[c] <= 6
        /\ pc[c] = "done" => (sleeps[c] = requests[c] - 1 /\ sleeps[c] <= 5)

\* C15 (bounded attempt loop): a call sends at most 6 requests, its retry counter never
\* exceeds 6 and it sleeps at most 5 times, once before every attempt but the first;
\* an attempt that fails at the clock read, the serialization or the signing sends no
\* request, so an ended call has sleeps = requests - 1 when its final attempt sent its
\* request and sleeps = requests when it did not; and when every send is answered or
\* fails and every sleep returns, a call in progress comes to its end.
C15_BoundedAttemptLoop ==
    /\ [](\A c \in Tasks :
            /\ requests[c] <= 6 /\ retry_count[c] <= 6 /\ sleeps[c] <= 5
            /\ pc[c] \in {"send", "text"} => sleeps[c] = requests[c] - 1
            /\ pc[c] = "sleep" => (sleeps[c] = requests[c] /\ retry_count[c] = sleeps[c])
            /\ FinalAttemptSent(c) => sleeps[c] = requests[c] - 1
            /\ (Ended(c) /\ ~FinalAttemptSent(c)) => sleeps[c] = requests[c])
    /\ \A c \in {1} : (pc[c] \in {"send", "text", "sleep"}) ~> Ended(c)

\* A call whose fifth sleep was followed by an attempt that failed at the clock read:
\* five requests, five sleeps.
C15_Witness ==
    \E c \in Tasks :
        /\ pc[c] = "done" /\ outcome[c].kind = "SystemTimeError"
        /\ requests[c] = 5 /\ sleeps[c] = 5 /\ retry_count[c] = 5

\* A step in which task c enters a call.
CallStarts(c) == pc[c] = "idle" /\ pc'[c] # "idle"

\* C16 (no state carries over): every call starts with its retry counter at 0 and no
\* sleep or rejection to its name, whatever the calls before it and beside it have
\* used up, and from there its counter is the number of its own retries; and no
\* operation changes the access key or the secret key.
C16_NoCarryOver ==
    /\ [][access_key' = access_key /\ secret_key' = secret_key]_vars
    /\ [][\A c \in Tasks :
            CallStarts(c)
                => /\ retry_count'[c] = 0
                   /\ sleeps'[c] = 0 /\ recoverable'[c] = 0
                   /\ requests'[c] <= 1
                   /\ \A d \in Tasks \ {c} : retry_count'[d] = retry_count[d]]_vars
    /\ [](\A c \in Tasks :
            pc[c] \in {"send", "text"}
                => /\ retry_count[c] = sleeps[c]
                   /\ requests[c] = retry_count[c] + 1
                   /\ MAX_RETRY_COUNT - retry_count[c] >= 0)

\* A call on its first attempt with the whole budget, beside a call of the same client
\* that has used all five retries.
C16_Witness ==
    /\ pc[1] = "send" /\ retry_count[1] = 0 /\ requests[1] = 1 /\ sleeps[1] = 0
    /\ pc[2] = "send" /\ retry_count[2] = MAX_RETRY_COUNT /\ requests[2] = 6
    /\ access_key = "access-A" /\ secret_key = "secret-A"

\* What the claim says the executors have in common: position, counts, the nonce and
\* what was read, and the outcome but for its request text.
Shape(c) ==
    <<pc[c], requests[c], sleeps[c], retry_count[c], signs[c], nonce[c], net[c],
      res_text[c], recoverable[c], outcome[c].kind, outcome[c].value,
      outcome[c].message, outcome[c].url, outcome[c].text,
      request[c].url, request[c].ACCESS_KEY, request[c].ACCESS_NONCE>>

CallerOutcome(c) ==
    IF args[c].verb = "POST" /\ args[c].schema = "lenient"
    THEN post_exchange_orders(outcome[c], args[c].url, args[c].body)
    ELSE outcome[c]

\* C18 (one retry suffices for a single caller): with calls made one after another, a
\* clock that is never set back and advances by 10 ms in each sleep, and a server that
\* rejects exactly the nonces not greater than the last it accepted, every call that
\* is answered is accepted after at most 2 requests: its caller gets a success value,
\* and never ResponseError "Nonce must be incremented".
C18_SingleCallerAccepted ==
    \A c \in Tasks :
        Decoded(c)
            => /\ requests[c] <= 2
               /\ CallerOutcome(c).kind = "Ok"
               /\ CallerOutcome(c).value.success = "true"
               /\ CallerOutcome(c).message # NonceMessage

\* The same for the calls whose success schema does not take the error payload.
NonceRetrySuffices ==
    \A c \in Tasks :
        (Decoded(c) /\ args[c].schema = "strict")
            => /\ requests[c] <= 2
               /\ outcome[c].kind = "Ok"
               /\ outcome[c].value.success = "true"

\* A call rejected once and accepted on its second attempt.
NonceRetryTaken ==
    \E c \in Tasks :
        /\ Decoded(c) /\ args[c].schema = "strict" /\ requests[c] = 2
        /\ outcome[c].kind = "Ok" /\ server.last_accepted = nonce[c]

\* C19 (retry only through the error schema): a call sleeps and retries only after a
\* text that its success schema refused and the error schema took; when the success
\* schema itself takes {success:false, error:"Nonce must be incremented"}, as the
\* order placement's does, the executor returns that payload as the success value of
\* the first attempt, with one request, no retry and no sleep.
C19_RetryOnlyThroughErrorSchema ==
    \A c \in Tasks :
        /\ pc[c] = "sleep"
               => /\ ~DecodesAs(args[c].schema, res_text[c])
                  /\ DecodesAsError(res_text[c])
                  /\ should_retry(ErrorMessage(res_text[c]))
        /\ (net[c] = "body" /\ res_text[c] = TextNonce
                /\ DecodesAs(args[c].schema, TextNonce))
               => /\ pc[c] = "done"
                  /\ outcome[c] = OkOutcome(DecodeAs(args[c].schema, TextNonce))
                  /\ outcome[c].value.success = "false"
                  /\ outcome[c].value.error = NonceMessage
                  /\ requests[c] = 1 /\ sleeps[c] = 0 /\ retry_count[c] = 0

\* An order placement answered with the nonce error: returned by the executor as a
\* value after one request, and turned into ResponseError by post_exchange_orders.
C19_Witness ==
    \E c \in Tasks :
        /\ Decoded(c) /\ args[c].verb = "POST" /\ args[c].schema = "lenient"
        /\ res_text[c] = TextNonce /\ outcome[c].kind = "Ok"
        /\ requests[c] = 1 /\ sleeps[c] = 0
        /\ CallerOutcome(c).kind = "ResponseError"
        /\ CallerOutcome(c).message = NonceMessage

\* The characters of a sequence put together as one text.
RECURSIVE Str(_)
Str(cs) == IF Len(cs) = 0 THEN "" ELSE Head(cs) \o Str(Tail(cs))

\* The arguments and the expected result of test_make_signature.
TestVector ==
    [nonce |-> 12345,
     url |-> <<"h", "t", "t", "p", "s", ":", "/", "/", "e", "x", "a", "m", "p", "l", "e", ".", "c", "o", "m">>,
     body |-> <<"h", "o", "g", "e", "=", "f", "o", "o">>,
     secret |-> <<"a", "b", "c", "d", "e", "f", "g">>,
     out |-> NoDigest]

\* C12 (the signature): make_signature signs the decimal nonce, the url and the body,
\* in that order, with HMAC-SHA256 keyed by the secret, and gives the 32 bytes as 64
\* lowercase hex digits, two for each byte; for (12345, "https://example.com",
\* "hoge=foo", "abcdefg") that is
\* 65a5d4bf76d4266e2f56582c31ca3e9ac163c80745e84357ead5a2899a37e218.
C12_Signature ==
    sig.out # NoDigest
        => /\ Len(sig.out) = 64
           /\ \A i \in 1..64 : \E d \in 1..16 : sig.out[i] = HexDigits[d]
           /\ sig.out = Hex(Hmac(Bytes(sig.secret),
                                 Bytes(DecimalChars(sig.nonce)) \o Bytes(sig.url)
                                     \o Bytes(sig.body)))
           /\ ([sig EXCEPT !.out = NoDigest] = TestVector
                  => Str(sig.out) =
                         "65a5d4bf76d4266e2f56582c31ca3e9ac163c80745e84357ead5a2899a37e218")

\* The test's arguments, signed.
C12_Witness ==
    /\ [sig EXCEPT !.out = NoDigest] = TestVector
    /\ Len(sig.out) = 64
    /\ Str(SubSeq(sig.out, 1, 8)) = "65a5d4bf"

====
